---- MODULE Spec2Model ----
(***************************************************************************)
(* The Western Balkans dashboard (wb-dashboard): one asynchronous load of  *)
(* a JSON dataset into allIndicatorsData, select elements that hold the    *)
(* filter specification, and applyFilters, which evaluates the filters     *)
(* over the record store and renders a count and a preview table.          *)
(*                                                                         *)
(* The repository holds three versions of script.js:                       *)
(*   "script"  src/script.js           year range, fixed year options,     *)
(*                                     layer filter left as a placeholder  *)
(*   "p000"    src/unnamed/part_000    year range, years and layers from   *)
(*                                     the data, layer filter              *)
(*   "p001"    src/unnamed/part_001    single year, indicator manifest,    *)
(*                                     filtering on change, preview cap    *)
(*                                                                         *)
(* JavaScript strings are sequences of UTF-16 code units, so that the      *)
(* default Array.prototype.sort (which compares the elements' strings) and *)
(* String(year) / parseInt(value) are modelled by what they do.            *)
(***************************************************************************)
EXTENDS Integers, Sequences, FiniteSets, TLC

VARIABLES
    variant,            \* which version of script.js the page runs
    phase,              \* position of initDashboard: fetching, parsing, loaded, failed
    json,               \* initDashboard's const data: what response.json() gave
    allIndicatorsData,  \* the record store: [kind, items]
    metadata,           \* part_001's manifest: [kind, indicators]
    filteredData,       \* the current result
    summary,            \* #summary: [kind, n]
    preview,            \* #preview-container: [kind, rows, truncated]
    selects,            \* the select elements: id -> [options, value]
    outcome,            \* how the last handler ended (alert() is the "alert" outcome)
    argData,            \* explicit first argument of a direct applyFilters call
    argFilters,         \* explicit second argument of a direct applyFilters call
    callPhase           \* direct calls: where the caller stands

vars == <<variant, phase, json, allIndicatorsData, metadata, filteredData, summary,
          preview, selects, outcome, argData, argFilters, callPhase>>

(***************************************************************************)
(* Bounds.                                                                 *)
(***************************************************************************)
\* longest record sequence a dataset file holds
MaxLen == 2

\* longest record sequence of a large dataset file (past the preview cap)
MaxRows == 257

(***************************************************************************)
(* Strings.                                                                *)
(***************************************************************************)
Empty == << >>                       \* ''
Albania == <<65, 108>>               \* a country name
Serbia == <<83, 101>>                \* a country name
EnergyAvail == <<69, 97>>            \* an indicator name
EnergyRel == <<69, 114>>             \* an indicator name
Basic == <<66, 97>>                  \* a layer
Intermediate == <<73, 110>>          \* a layer
Unknown == <<85, 110>>               \* 'Unknown'
All == <<65, 108, 108>>              \* 'All'
TEST_INDICATOR == <<84, 69, 83, 84>> \* 'TEST_INDICATOR'

\* String(n) for a non-negative integer: its decimal digits as code units
RECURSIVE Str(_)
Str(n) == IF n < 10 THEN <<48 + n>> ELSE Str(n \div 10) \o <<48 + (n % 10)>>

\* parseInt(s) for a string of decimal digits
RECURSIVE parseInt(_)
parseInt(s) ==
    IF Len(s) = 1 THEN s[1] - 48
    ELSE 10 * parseInt(SubSeq(s, 1, Len(s) - 1)) + (s[Len(s)] - 48)

\* a < b in code-unit order, the order of sort() without a comparator
RECURSIVE StrLess(_, _)
StrLess(a, b) ==
    IF b = << >> THEN FALSE
    ELSE IF a = << >> THEN TRUE
    ELSE IF a[1] # b[1] THEN a[1] < b[1]
    ELSE StrLess(Tail(a), Tail(b))

\* [...new Set(arr)]: first occurrences, in insertion order
Unique(s) ==
    LET first == { i \in 1..Len(s) : \A j \in 1..(i - 1) : s[j] # s[i] }
    IN  [k \in 1..Cardinality(first) |->
            s[CHOOSE i \in first : Cardinality({ j \in first : j < i }) = k - 1]]

\* insert string x into the sorted sequence s, after every element not greater
RECURSIVE InsertSorted(_, _)
InsertSorted(s, x) ==
    IF s = << >> THEN <<x>>
    ELSE IF StrLess(x, s[1]) THEN <<x>> \o s
    ELSE <<s[1]>> \o InsertSorted(Tail(s), x)

\* arr.sort() on strings: ascending in code-unit order
RECURSIVE JsSort(_)
JsSort(s) ==
    IF s = << >> THEN << >>
    ELSE InsertSorted(JsSort(SubSeq(s, 1, Len(s) - 1)), s[Len(s)])

\* insert number x into s, which is sorted by its elements' strings
RECURSIVE InsertSortedNumber(_, _)
InsertSortedNumber(s, x) ==
    IF s = << >> THEN <<x>>
    ELSE IF StrLess(Str(x), Str(s[1])) THEN <<x>> \o s
    ELSE <<s[1]>> \o InsertSortedNumber(Tail(s), x)

\* arr.sort() on numbers: no comparator, so ascending by String(element)
RECURSIVE JsSortNumbers(_)
JsSortNumbers(s) ==
    IF s = << >> THEN << >>
    ELSE InsertSortedNumber(JsSortNumbers(SubSeq(s, 1, Len(s) - 1)), s[Len(s)])

\* arr.slice(0, n)
Slice(s, n) == SubSeq(s, 1, IF Len(s) < n THEN Len(s) ELSE n)

(***************************************************************************)
(* Data points.  value is [kind, n]: a number n, or null, undefined (the   *)
(* field is absent) or NaN.  An absent layer reads as '' (both are falsy   *)
(* and neither equals a selected layer).                                   *)
(***************************************************************************)
Num(n) == [kind |-> "number", n |-> n]
Null == [kind |-> "null", n |-> 0]
Undefined == [kind |-> "undefined", n |-> 0]
NaN == [kind |-> "NaN", n |-> 0]

DataPoint(c, i, y, v, l) ==
    [country |-> c, indicator |-> i, year |-> y, value |-> v, layer |-> l]

\* the data points a dataset file is made of
RecordPool ==
    { DataPoint(Albania, EnergyAvail, 2015, Num(5), Basic),
      DataPoint(Serbia, EnergyRel, 2022, Num(7), Empty),
      DataPoint(Albania, EnergyRel, 999, NaN, Basic),
      DataPoint(Serbia, EnergyAvail, 0, Null, Unknown) }

SeqsUpTo(S, n) == UNION { [1..k -> S] : k \in 0..n }

\* the data_points arrays a dataset file may hold
Datasets == SeqsUpTo(RecordPool, MaxLen)

Array(items) == [kind |-> "array", items |-> items]
NotArray == [kind |-> "object", items |-> << >>]   \* a truthy non-array value
NullData == [kind |-> "null", items |-> << >>]     \* null

(***************************************************************************)
(* The page: the select elements of index.html.  Each starts with its      *)
(* placeholder option (value ''), the markup populateEmptyFilters restores.*)
(***************************************************************************)
Variants == {"script", "p000", "p001"}
RangeVariants == {"script", "p000"}

SelectIds == {"countryFilter", "indicatorFilter", "yearFromFilter",
              "yearToFilter", "yearFilter", "layerFilter"}

\* the select elements of each version's page
PageSelects(v) ==
    IF v = "p001" THEN {"countryFilter", "indicatorFilter", "yearFilter"}
    ELSE {"countryFilter", "indicatorFilter", "yearFromFilter", "yearToFilter",
          "layerFilter"}

\* <select><option value="">...</option></select>
Placeholder == [options |-> <<Empty>>, value |-> Empty]

InitialSelects == [id \in SelectIds |-> Placeholder]

HasOption(sel, v) == \E i \in 1..Len(sel.options) : sel.options[i] = v

\* select.appendChild(option) for each value
AppendOptions(sel, values) == [sel EXCEPT !.options = @ \o values]

\* select.value = v: selects the option with that value; none selected reads ''
SetValue(sel, v) == [sel EXCEPT !.value = IF HasOption(sel, v) THEN v ELSE Empty]

\* allIndicatorsData.map(d => d.country), and so on
Countries(items) == [i \in 1..Len(items) |-> items[i].country]
Indicators(items) == [i \in 1..Len(items) |-> items[i].indicator]
Years(items) == [i \in 1..Len(items) |-> items[i].year]
Layers(items) == [i \in 1..Len(items) |-> items[i].layer]

\* option.value = year: the option values of a list of years
YearValues(years) == [i \in 1..Len(years) |-> Str(years[i])]

\* script.js: const years = [2015, ..., 2022]
FixedYears == <<2015, 2016, 2017, 2018, 2019, 2020, 2021, 2022>>

\* [...new Set(allIndicatorsData.map(d => d.year))].filter(y => y).sort()
DataYears(items) ==
    JsSortNumbers(SelectSeq(Unique(Years(items)), LAMBDA y : y # 0))

\* [...new Set(allIndicatorsData.map(d => d.layer))].filter(l => l && l !== 'Unknown').sort()
DataLayers(items) ==
    JsSort(SelectSeq(Unique(Layers(items)),
                     LAMBDA l : l # Empty /\ l # Unknown))

DataCountries(items) == JsSort(Unique(Countries(items)))
DataIndicators(items) == JsSort(Unique(Indicators(items)))

\* part_001: metadata.indicators when present and non-empty, else from the data
IndicatorOptions(meta, items) ==
    IF meta.kind = "object" /\ Len(meta.indicators) > 0
    THEN JsSort(meta.indicators)
    ELSE DataIndicators(items)

\* the year range defaults: years[0] and years[years.length - 1], when any
DefaultYearRange(sels, years) ==
    IF Len(years) > 0
    THEN [sels EXCEPT !["yearFromFilter"] = SetValue(@, Str(years[1])),
                      !["yearToFilter"] = SetValue(@, Str(years[Len(years)]))]
    ELSE sels

populateFilters(v, items, meta, sels) ==
    LET withCountry ==
            [sels EXCEPT !["countryFilter"] = AppendOptions(@, DataCountries(items))]
    IN  IF v = "script" THEN
            LET withOptions ==
                [withCountry EXCEPT
                    !["indicatorFilter"] = AppendOptions(@, DataIndicators(items)),
                    !["yearFromFilter"] = AppendOptions(@, YearValues(FixedYears)),
                    !["yearToFilter"] = AppendOptions(@, YearValues(FixedYears))]
            IN  [withOptions EXCEPT
                    !["yearFromFilter"] = SetValue(@, Str(2015)),
                    !["yearToFilter"] = SetValue(@, Str(2022))]
        ELSE IF v = "p000" THEN
            LET years == DataYears(items)
                withOptions ==
                [withCountry EXCEPT
                    !["indicatorFilter"] = AppendOptions(@, DataIndicators(items)),
                    !["yearFromFilter"] = AppendOptions(@, YearValues(years)),
                    !["yearToFilter"] = AppendOptions(@, YearValues(years)),
                    !["layerFilter"] = AppendOptions(@, DataLayers(items))]
            IN  DefaultYearRange(withOptions, years)
        ELSE
            [withCountry EXCEPT
                !["indicatorFilter"] =
                    AppendOptions(AppendOptions(Placeholder,
                                                IndicatorOptions(meta, items)),
                                  <<TEST_INDICATOR>>),
                !["yearFilter"] = AppendOptions(@, YearValues(DataYears(items)))]

\* every select of the page back to its placeholder
populateEmptyFilters(v, sels) ==
    [id \in SelectIds |-> IF id \in PageSelects(v) THEN Placeholder ELSE sels[id]]

\* the filter specification read from the page; a field the version's
\* getFilters does not return is undefined, which reads as '' (falsy)
getFilters(v, sels) ==
    [country |-> sels["countryFilter"].value,
     indicator |-> sels["indicatorFilter"].value,
     yearFrom |-> IF v \in RangeVariants THEN sels["yearFromFilter"].value ELSE Empty,
     yearTo |-> IF v \in RangeVariants THEN sels["yearToFilter"].value ELSE Empty,
     year |-> IF v = "p001" THEN sels["yearFilter"].value ELSE Empty,
     layer |-> IF v \in RangeVariants THEN sels["layerFilter"].value ELSE Empty]

(***************************************************************************)
(* applyFilters(data, filters).                                            *)
(***************************************************************************)
\* !data || !Array.isArray(data) || data.length === 0
IsNoData(data) == data.kind # "array" \/ Len(data.items) = 0

\* if (filters.country) filtered = filtered.filter(d => d.country === filters.country)
ByCountry(rows, f) ==
    IF f.country # Empty THEN SelectSeq(rows, LAMBDA d : d.country = f.country)
    ELSE rows

\* if (filters.indicator) filtered = filtered.filter(d => d.indicator === filters.indicator)
ByIndicator(rows, f) ==
    IF f.indicator # Empty THEN SelectSeq(rows, LAMBDA d : d.indicator = f.indicator)
    ELSE rows

\* if (filters.yearFrom) filtered = filtered.filter(d => d.year >= parseInt(filters.yearFrom))
ByYearFrom(rows, f) ==
    IF f.yearFrom # Empty
    THEN SelectSeq(rows, LAMBDA d : d.year >= parseInt(f.yearFrom))
    ELSE rows

\* the upper bound taken as exclusive: d.year < parseInt(filters.yearTo)
ByYearTo_exclusive(rows, f) ==
    IF f.yearTo # Empty
    THEN SelectSeq(rows, LAMBDA d : d.year < parseInt(f.yearTo))
    ELSE rows

\* if (filters.yearTo) filtered = filtered.filter(d => d.year <= parseInt(filters.yearTo))
ByYearTo(rows, f) ==
    IF f.yearTo # Empty
    THEN SelectSeq(rows, LAMBDA d : d.year <= parseInt(f.yearTo))
    ELSE rows

\* part_001: if (filters.year) filtered = filtered.filter(d => d.year === parseInt(filters.year))
ByYear(rows, f) ==
    IF f.year # Empty THEN SelectSeq(rows, LAMBDA d : d.year = parseInt(f.year))
    ELSE rows

\* the year step of each version
ByYearConstraint(v, rows, f) ==
    IF v \in RangeVariants THEN ByYearTo(ByYearFrom(rows, f), f) ELSE ByYear(rows, f)

\* the range check without parseInt: the select values compared as strings
RangeInvalid_strings(v, f) ==
    /\ v \in RangeVariants
    /\ f.yearFrom # Empty
    /\ f.yearTo # Empty
    /\ StrLess(f.yearTo, f.yearFrom)

\* Validate year range: both set and parseInt(yearFrom) > parseInt(yearTo)
RangeInvalid(v, f) ==
    /\ v \in RangeVariants
    /\ f.yearFrom # Empty
    /\ f.yearTo # Empty
    /\ parseInt(f.yearFrom) > parseInt(f.yearTo)

\* the value test without !isNaN(d.value)
ValueOk_noNaN(d) == d.value.kind # "null" /\ d.value.kind # "undefined"

\* d.value !== null && d.value !== undefined && !isNaN(d.value)
ValueOk(d) == d.value.kind # "null" /\ d.value.kind # "undefined" /\ d.value.kind # "NaN"

ByValue(rows) == SelectSeq(rows, ValueOk)

\* the layer step: part_000 filters, script.js leaves the branch empty
\* ("Future: implement layer filtering"), part_001 has none
ByLayer(v, rows, f) ==
    IF v = "p000" /\ f.layer # Empty /\ f.layer # All
    THEN SelectSeq(rows, LAMBDA d : d.layer = f.layer)
    ELSE rows

\* arr.reverse()
Reverse(s) == [i \in 1..Len(s) |-> s[Len(s) + 1 - i]]

\* the passes over [...data].reverse()
Filtered_reversed(v, items, f) ==
    ByLayer(v, ByValue(ByYearConstraint(v, ByIndicator(ByCountry(Reverse(items), f), f), f)), f)

\* the passes of applyFilters over [...data], in the order of the code
Filtered(v, items, f) ==
    ByLayer(v, ByValue(ByYearConstraint(v, ByIndicator(ByCountry(items, f), f), f)), f)

(***************************************************************************)
(* Rendering.                                                              *)
(***************************************************************************)
\* part_001 renderPreview: const maxPreviewRows = 255
maxPreviewRows == 255

\* script.js renderResults: filteredData.slice(0, 10)
scriptPreviewRows == 10

\* the cells of one table row; script.js has no Layer column
Row(v, d) ==
    IF v = "script"
    THEN [indicator |-> d.indicator, country |-> d.country, year |-> d.year,
          value |-> d.value.n]
    ELSE [indicator |-> d.indicator, country |-> d.country, year |-> d.year,
          value |-> d.value.n,
          layer |-> IF d.layer = Empty THEN Unknown ELSE d.layer]

\* rows.forEach(row => tableHtml += ...)
TableRows(v, rows) == [i \in 1..Len(rows) |-> Row(v, rows[i])]

HtmlSummary == [kind |-> "html", n |-> 0]            \* as index.html ships it
CountSummary(n) == [kind |-> "count", n |-> n]       \* `${count} points after filter`
NoDataSummary == [kind |-> "nodata", n |-> 0]        \* 'No data available'
LoadErrorSummary == [kind |-> "loaderror", n |-> 0]  \* <div class="error">...

Message(kind) == [kind |-> kind, rows |-> << >>, truncated |-> FALSE]
HtmlPreview == Message("html")              \* as index.html ships it
NoDataPreview == Message("nodata")          \* 'No data available'
NoMatchPreview == Message("nomatch")        \* 'No data matches the current filters'
RunScriptPreview == Message("runscript")    \* 'No data available. Please run the ...'

renderSummary(count) == CountSummary(count)

\* renderPreview without the rows.length === 0 branch: an empty table
renderPreview_emptyTable(v, rows) ==
    IF v = "p001"
    THEN [kind |-> "table",
          rows |-> TableRows(v, Slice(rows, maxPreviewRows)),
          truncated |-> Len(rows) > maxPreviewRows]
    ELSE [kind |-> "table", rows |-> TableRows(v, rows),
          truncated |-> FALSE]

renderPreview(v, rows) ==
    IF Len(rows) = 0 THEN NoMatchPreview
    ELSE IF v = "p001"
    THEN [kind |-> "table",
          rows |-> TableRows(v, Slice(rows, maxPreviewRows)),
          truncated |-> Len(rows) > maxPreviewRows]
    ELSE [kind |-> "table", rows |-> TableRows(v, rows),
          truncated |-> FALSE]

\* the view after filteredData = filtered; renderResults()
renderResults(v, filtered) ==
    [filteredData |-> filtered,
     summary |-> renderSummary(Len(filtered)),
     preview |-> renderPreview(v, IF v = "script"
                                  THEN Slice(filtered, scriptPreviewRows)
                                  ELSE filtered),
     outcome |-> "result"]

\* the NoData return that also resets the result: filteredData = []
noDataReturn_clearsResult(cur) ==
    [cur EXCEPT !.filteredData = << >>, !.summary = NoDataSummary,
                !.preview = NoDataPreview, !.outcome = "nodata"]

\* the NoData return: both messages set, filteredData left alone
noDataReturn(cur) ==
    [cur EXCEPT !.summary = NoDataSummary, !.preview = NoDataPreview,
                !.outcome = "nodata"]

\* the validation return: alert(...) and nothing else
alertReturn(cur) == [cur EXCEPT !.outcome = "alert"]

\* applyFilters narrowing the result on display: let filtered = [...filteredData]
applyFilters_fromFiltered(v, data, f, cur) ==
    IF IsNoData(data) THEN noDataReturn(cur)
    ELSE IF RangeInvalid(v, f) THEN alertReturn(cur)
    ELSE renderResults(v, Filtered(v, IF cur.filteredData # << >>
                                      THEN cur.filteredData ELSE data.items, f))

\* applyFilters adding to the result: filteredData.push(...filtered)
applyFilters_accumulates(v, data, f, cur) ==
    IF IsNoData(data) THEN noDataReturn(cur)
    ELSE IF RangeInvalid(v, f) THEN alertReturn(cur)
    ELSE renderResults(v, cur.filteredData \o Filtered(v, data.items, f))

\* applyFilters from the view cur = [filteredData, summary, preview, outcome]
applyFilters(v, data, f, cur) ==
    IF IsNoData(data) THEN noDataReturn(cur)
    ELSE IF RangeInvalid(v, f) THEN alertReturn(cur)
    ELSE renderResults(v, Filtered(v, data.items, f))

View == [filteredData |-> filteredData, summary |-> summary, preview |-> preview,
         outcome |-> outcome]

\* the result stored and counted, the preview not rendered again
SetView_keepsPreview(w) ==
    /\ filteredData' = w.filteredData
    /\ summary' = w.summary
    /\ preview' = preview
    /\ outcome' = w.outcome

SetView(w) ==
    /\ filteredData' = w.filteredData
    /\ summary' = w.summary
    /\ preview' = w.preview
    /\ outcome' = w.outcome

(***************************************************************************)
(* The dataset file.                                                       *)
(***************************************************************************)
NullMeta == [kind |-> "null", indicators |-> << >>]       \* let metadata = null
Manifest(names) == [kind |-> "object", indicators |-> names]

\* the metadata field of a dataset file: absent (NullMeta), or an object
\* with or without a list of indicators; part_001 alone reads it
MetadataPool ==
    { NullMeta, Manifest(<< >>), Manifest(<<EnergyRel, EnergyAvail>>),
      Manifest(<<EnergyAvail, EnergyAvail>>) }

\* part_001: metadata = data.metadata || {}; the others never assign it
LoadedMetadata(v, doc) ==
    IF v = "p001"
    THEN IF doc.metadata.kind = "null" THEN Manifest(<< >>) ELSE doc.metadata
    ELSE NullMeta

\* The documents response.json() may resolve to: null, or an object whose
\* data_points is absent, an array, or a non-array value.
Documents(v) ==
    { [kind |-> "null", data_points |-> NullData, metadata |-> NullMeta] }
    \cup
    { [kind |-> "object", data_points |-> dp, metadata |-> m] :
        dp \in {NullData, NotArray} \cup { Array(items) : items \in Datasets },
        m \in IF v = "p001" THEN MetadataPool ELSE {Manifest(<< >>)} }

\* before response.json() has resolved there is no document
NoDocument == [kind |-> "none", data_points |-> NullData, metadata |-> NullMeta]

\* allIndicatorsData = data.data_points with no default: undefined when absent
LoadedData_noDefault(doc) == doc.data_points

\* data.data_points || []
LoadedData(doc) ==
    IF doc.data_points.kind = "null" THEN Array(<< >>) ELSE doc.data_points

(***************************************************************************)
(* Direct calls applyFilters(data, filters).                               *)
(***************************************************************************)
NoFilters ==
    [country |-> Empty, indicator |-> Empty, yearFrom |-> Empty, yearTo |-> Empty,
     year |-> Empty, layer |-> Empty]

\* undefined, or the argument left out
UndefinedData == [kind |-> "undefined", items |-> << >>]

\* the first arguments of a direct call
DataArgs == {UndefinedData, NullData, NotArray}

YearArgs == {Empty, Str(2015), Str(2022)}

\* the second arguments of a direct call, in the shape the version reads
FilterArgs(v) ==
    IF v \in RangeVariants
    THEN { [country |-> c, indicator |-> i, yearFrom |-> yf, yearTo |-> yt,
            year |-> Empty, layer |-> l] :
            c \in {Empty, Albania}, i \in {Empty, EnergyAvail},
            yf \in YearArgs, yt \in YearArgs, l \in {Empty, All, Basic} }
    ELSE { [country |-> c, indicator |-> i, yearFrom |-> Empty, yearTo |-> Empty,
            year |-> y, layer |-> Empty] :
            c \in {Empty, Albania}, i \in {Empty, EnergyAvail},
            y \in YearArgs }

(***************************************************************************)
(* The state once the DOMContentLoaded handler has returned: initDashboard *)
(* is suspended at await fetch(...) and the listeners are registered.      *)
(***************************************************************************)
InitPage ==
    /\ variant \in Variants
    /\ phase = "fetching"
    /\ json = NoDocument
    /\ allIndicatorsData = Array(<< >>)
    /\ metadata = NullMeta
    /\ filteredData = << >>
    /\ summary = HtmlSummary
    /\ preview = HtmlPreview
    /\ selects = InitialSelects
    /\ outcome = "none"

Init ==
    /\ InitPage
    /\ argData = UndefinedData
    /\ argFilters = NoFilters
    /\ callPhase = "none"

\* a catch block that only logs: console.error('Error loading data:', error)
CatchLoadError_consoleOnly ==
    /\ phase' = "failed"
    /\ outcome' = "loaderror"
    /\ UNCHANGED <<summary, selects, preview, filteredData>>

\* the catch block of initDashboard
CatchLoadError ==
    /\ phase' = "failed"
    /\ summary' = LoadErrorSummary
    /\ outcome' = "loaderror"
    /\ IF variant = "script"
       THEN UNCHANGED <<selects, preview>>
       ELSE /\ selects' = populateEmptyFilters(variant, selects)
            /\ preview' = RunScriptPreview
    /\ UNCHANGED filteredData

\* fetch resolves with response.ok
FetchResolve ==
    /\ phase = "fetching"
    /\ phase' = "parsing"
    /\ UNCHANGED <<variant, json, allIndicatorsData, metadata, filteredData, summary,
                   preview, selects, outcome, argData, argFilters, callPhase>>

\* fetch rejects, or resolves with !response.ok
FetchFail ==
    /\ phase = "fetching"
    /\ CatchLoadError
    /\ UNCHANGED <<variant, json, allIndicatorsData, metadata, argData, argFilters,
                   callPhase>>

\* response.json() rejects: the body is not valid JSON
ParseFail ==
    /\ phase = "parsing"
    /\ CatchLoadError
    /\ UNCHANGED <<variant, json, allIndicatorsData, metadata, argData, argFilters,
                   callPhase>>

\* response.json() resolves with doc; the rest of the try block runs
LoadDone(doc) ==
    /\ phase = "parsing"
    /\ IF doc.kind = "null"
       THEN \* data.data_points throws a TypeError
            /\ CatchLoadError
            /\ UNCHANGED <<allIndicatorsData, metadata>>
       ELSE /\ allIndicatorsData' = LoadedData(doc)
            /\ metadata' = LoadedMetadata(variant, doc)
            /\ IF LoadedData(doc).kind # "array"
               THEN \* allIndicatorsData.map is not a function
                    CatchLoadError
               ELSE LET sels == populateFilters(variant, LoadedData(doc).items,
                                                LoadedMetadata(variant, doc), selects)
                    IN  /\ phase' = "loaded"
                        /\ selects' = sels
                        /\ SetView(applyFilters(variant, LoadedData(doc),
                                                getFilters(variant, sels), View))
    /\ json' = doc
    /\ UNCHANGED <<variant, argData, argFilters, callPhase>>

Load == phase = "parsing" /\ \E doc \in Documents(variant) : LoadDone(doc)

(***************************************************************************)
(* The user's events.  The listeners are registered from the start.        *)
(***************************************************************************)
\* the years the user picks among the options of a year select
UserYears == {Str(2015), Str(2022), Str(999)}

YearSelectIds == {"yearFromFilter", "yearToFilter", "yearFilter"}

\* the user picks another option of a select; part_001 listens to change
Change(id, val) ==
    /\ id \in PageSelects(variant)
    /\ HasOption(selects[id], val)
    /\ id \in YearSelectIds => val \in UserYears \cup {Empty}
    /\ val # selects[id].value
    /\ selects' = [selects EXCEPT ![id] = SetValue(@, val)]
    /\ IF variant = "p001"
       THEN SetView(applyFilters(variant, allIndicatorsData,
                                 getFilters(variant, selects'), View))
       ELSE UNCHANGED <<filteredData, summary, preview, outcome>>
    /\ UNCHANGED <<variant, json, phase, allIndicatorsData, metadata, argData,
                   argFilters, callPhase>>

ChangeSelect ==
    \E id \in SelectIds :
        \E i \in 1..Len(selects[id].options) : Change(id, selects[id].options[i])

\* the click handler keeping the result as the record store
ApplyClick_overwritesStore ==
    /\ variant \in RangeVariants
    /\ SetView(applyFilters(variant, allIndicatorsData,
                            getFilters(variant, selects), View))
    /\ allIndicatorsData' = IF outcome' = "result" THEN Array(filteredData')
                            ELSE allIndicatorsData
    /\ UNCHANGED <<variant, json, phase, metadata, selects, argData, argFilters,
                   callPhase>>

\* click on #applyFilters (script.js and part_000)
ApplyClick ==
    /\ variant \in RangeVariants
    /\ SetView(applyFilters(variant, allIndicatorsData,
                            getFilters(variant, selects), View))
    /\ UNCHANGED <<variant, json, phase, allIndicatorsData, metadata, selects, argData,
                   argFilters, callPhase>>

\* the selects after the assignments of the clearFilters handler
ClearedSelects(v, data, sels) ==
    LET base == [sels EXCEPT !["countryFilter"] = SetValue(@, Empty),
                             !["indicatorFilter"] = SetValue(@, Empty)]
    IN  IF v = "script" THEN
            [base EXCEPT !["yearFromFilter"] = SetValue(@, Str(2015)),
                         !["yearToFilter"] = SetValue(@, Str(2022)),
                         !["layerFilter"] = SetValue(@, Empty)]
        ELSE IF v = "p000" THEN
            IF data.kind # "array" THEN base
            ELSE [DefaultYearRange(base, DataYears(data.items)) EXCEPT
                         !["layerFilter"] = SetValue(@, Empty)]
        ELSE [base EXCEPT !["yearFilter"] = SetValue(@, Empty)]

\* part_000's handler calls allIndicatorsData.map: a TypeError on a non-array
ClearThrows(v, data) == v = "p000" /\ data.kind # "array"

\* click on #clearFilters
ClearClick ==
    /\ selects' = ClearedSelects(variant, allIndicatorsData, selects)
    /\ IF ClearThrows(variant, allIndicatorsData)
       THEN /\ outcome' = "exception"
            /\ UNCHANGED <<filteredData, summary, preview>>
       ELSE SetView(applyFilters(variant, allIndicatorsData,
                                 getFilters(variant, selects'), View))
    /\ UNCHANGED <<variant, json, phase, allIndicatorsData, metadata, argData,
                   argFilters, callPhase>>

Next == FetchResolve \/ FetchFail \/ ParseFail \/ Load \/ ChangeSelect
        \/ ApplyClick \/ ClearClick

Spec == Init /\ [][Next]_vars

(***************************************************************************)
(* The page with one direct call applyFilters(argData, argFilters), made   *)
(* twice in succession once the dataset is loaded.                         *)
(***************************************************************************)
InitCall ==
    /\ InitPage
    /\ argData \in DataArgs
    /\ argFilters \in FilterArgs(variant)
    /\ callPhase = "fresh"

\* function applyFilters(data = allIndicatorsData, ...): an undefined
\* argument takes the default, the record store
CallData == IF argData.kind = "undefined" THEN allIndicatorsData ELSE argData

Invoke ==
    /\ phase = "loaded"
    /\ callPhase \in {"fresh", "once"}
    /\ callPhase' = IF callPhase = "fresh" THEN "once" ELSE "twice"
    /\ SetView(applyFilters(variant, CallData, argFilters, View))
    /\ UNCHANGED <<variant, json, phase, allIndicatorsData, metadata, selects, argData,
                   argFilters>>

LoadArray ==
    /\ phase = "parsing"
    /\ \E items \in Datasets :
        LoadDone([kind |-> "object", data_points |-> Array(items),
                  metadata |-> Manifest(<< >>)])

NextCall == FetchResolve \/ LoadArray \/ Invoke

SpecCall == InitCall /\ [][NextCall]_vars

(***************************************************************************)
(* The page loading a large dataset: up to MaxRows records that all carry  *)
(* a value, so that the result outgrows the preview.                       *)
(***************************************************************************)
\* n data points that differ in their values
LargeDataset(n) ==
    [i \in 1..n |-> DataPoint(Albania, EnergyAvail, 2015, Num(i), Basic)]

LoadLarge ==
    /\ phase = "parsing"
    /\ \E n \in 0..MaxRows :
        LoadDone([kind |-> "object", data_points |-> Array(LargeDataset(n)),
                  metadata |-> NullMeta])

NextPreview == FetchResolve \/ LoadLarge \/ ApplyClick \/ ClearClick

SpecPreview == Init /\ [][NextPreview]_vars

(***************************************************************************)
(* Vocabulary of the properties.                                           *)
(***************************************************************************)
\* both bounds are set and yearFrom > yearTo
InvalidRange(f) ==
    f.yearFrom # Empty /\ f.yearTo # Empty /\ parseInt(f.yearFrom) > parseInt(f.yearTo)

NonEmptyStore(data) == data.kind = "array" /\ Len(data.items) > 0

\* the filter specification on the page
PageFilters == getFilters(variant, selects)

\* a step of the page in which applyFilters() runs: it reads the selects and
\* the record store as the step leaves them
InvokesApplyFilters ==
    \/ ApplyClick
    \/ ClearClick /\ ~ClearThrows(variant, allIndicatorsData)
    \/ variant = "p001" /\ ChangeSelect
    \/ Load /\ phase' = "loaded"

ViewUnchanged ==
    filteredData' = filteredData /\ summary' = summary /\ preview' = preview

\* the view of the page as index.html ships it
FreshView ==
    [filteredData |-> << >>, summary |-> HtmlSummary, preview |-> HtmlPreview,
     outcome |-> "none"]

Elements(s) == { s[i] : i \in 1..Len(s) }

(***************************************************************************)
(* C1: in the range-mode versions, an applyFilters run on a non-empty      *)
(* record store with yearFrom and yearTo both set and yearFrom > yearTo    *)
(* ends in the alert and leaves filteredData, the summary and the preview  *)
(* as they were, whatever load, apply and clear steps came before.         *)
(***************************************************************************)
C1_InvalidRangeKeepsView ==
    [][ ( /\ InvokesApplyFilters
          /\ variant \in RangeVariants
          /\ NonEmptyStore(allIndicatorsData')
          /\ InvalidRange(getFilters(variant, selects')) )
        => (ViewUnchanged /\ outcome' = "alert") ]_vars

\* an alert was raised over an earlier, non-empty result that is still shown
C1_Witness ==
    /\ variant \in RangeVariants
    /\ phase = "loaded"
    /\ outcome = "alert"
    /\ InvalidRange(PageFilters)
    /\ filteredData # << >>
    /\ summary = CountSummary(Len(filteredData))
    /\ preview.kind = "table"

(***************************************************************************)
(* C3: in every reachable state filteredData holds no record whose value   *)
(* is null, undefined or NaN.                                              *)
(***************************************************************************)
C3_NoMissingValues ==
    \A i \in 1..Len(filteredData) : filteredData[i].value.kind = "number"

\* a result was rendered from a store that holds a record without a value,
\* with no filter set
C3_Witness ==
    /\ outcome = "result"
    /\ PageFilters = NoFilters
    /\ filteredData # << >>
    /\ \E i \in 1..Len(allIndicatorsData.items) :
          allIndicatorsData.items[i].value.kind \in {"null", "NaN"}

(***************************************************************************)
(* C8: no step after the load has set allIndicatorsData changes it, and no *)
(* apply, change or clear step changes it at any time, whichever outcome   *)
(* the step ends in.                                                       *)
(***************************************************************************)
C8_StoreReadOnly ==
    [][ (phase \in {"loaded", "failed"} \/ ApplyClick \/ ClearClick \/ ChangeSelect)
        => allIndicatorsData' = allIndicatorsData ]_vars

\* a narrowed result next to the full two-record store
C8_Witness ==
    /\ phase = "loaded"
    /\ Len(allIndicatorsData.items) = 2
    /\ outcome = "result"
    /\ Len(filteredData) = 1

ErrorOutcome ==
    outcome \in {"alert", "nodata"} \/ (outcome = "result" /\ filteredData = << >>)

C10_ErrorsRecoverable ==
    [][ ( /\ ErrorOutcome
          /\ InvokesApplyFilters
          /\ NonEmptyStore(allIndicatorsData')
          /\ ~InvalidRange(getFilters(variant, selects')) )
        => /\ filteredData' = applyFilters(variant, allIndicatorsData',
                 getFilters(variant, selects'), FreshView).filteredData
           /\ summary' = CountSummary(Len(filteredData'))
           /\ preview' = applyFilters(variant, allIndicatorsData',
                 getFilters(variant, selects'), FreshView).preview
           /\ outcome' = "result" ]_vars

\* an alert is on record, the range has been repaired, and applying the
\* filters now yields a non-empty result other than the one shown
C10_Witness ==
    /\ phase = "loaded"
    /\ outcome = "alert"
    /\ ~InvalidRange(PageFilters)
    /\ applyFilters(variant, allIndicatorsData, PageFilters, FreshView).filteredData
         \notin {<< >>, filteredData}

(***************************************************************************)
(* C11: when response.json() resolves to an object without a data_points   *)
(* field, the load does not fail: the record store becomes the empty       *)
(* sequence, the page is loaded and not in the load-error state, and the   *)
(* load's own applyFilters ends in the NoData outcome; when the object has *)
(* no metadata field, part_001's metadata becomes an empty object.         *)
(***************************************************************************)
C11_MissingFieldsDefault ==
    [][ (Load /\ json'.kind = "object")
        => /\ json'.data_points.kind = "null"
               => /\ allIndicatorsData' = Array(<< >>)
                  /\ phase' = "loaded"
                  /\ summary' = NoDataSummary
                  /\ preview' = NoDataPreview
                  /\ outcome' = "nodata"
                  /\ filteredData' = filteredData
           /\ (variant = "p001" /\ json'.metadata.kind = "null")
               => metadata' = Manifest(<< >>) ]_vars

\* part_001 has loaded a document with neither data_points nor metadata
C11_Witness ==
    /\ variant = "p001"
    /\ phase = "loaded"
    /\ json.kind = "object"
    /\ json.data_points.kind = "null"
    /\ json.metadata.kind = "null"
    /\ allIndicatorsData = Array(<< >>)
    /\ metadata = Manifest(<< >>)
    /\ outcome = "nodata"

(***************************************************************************)
(* Direct calls: the data the call reads, and what a record must satisfy.  *)
(***************************************************************************)
\* the call has returned with a result
CallReturnedResult == callPhase \in {"once", "twice"} /\ outcome = "result"

HasValue(d) == d.value.kind \notin {"null", "undefined", "NaN"}

\* every active predicate of a range-mode specification holds for d
RangeSpecHolds(d, f) ==
    /\ f.country # Empty => d.country = f.country
    /\ f.indicator # Empty => d.indicator = f.indicator
    /\ f.yearFrom # Empty => d.year >= parseInt(f.yearFrom)
    /\ f.yearTo # Empty => d.year <= parseInt(f.yearTo)
    /\ (f.layer # Empty /\ f.layer # All) => d.layer = f.layer

\* the layer rule: no layer, the sentinel, or the record's own layer
LayerKeeps(d, f) == f.layer = Empty \/ f.layer = All \/ d.layer = f.layer

RECURSIVE IsSubsequence(_, _)
IsSubsequence(a, b) ==
    IF a = << >> THEN TRUE
    ELSE IF b = << >> THEN FALSE
    ELSE IF Head(a) = Head(b) THEN IsSubsequence(Tail(a), Tail(b))
    ELSE IsSubsequence(a, Tail(b))

(***************************************************************************)
(* C2: for a non-empty record sequence and a valid range-mode filter       *)
(* specification, a record is in the result of applyFilters if and only if *)
(* it has a value and every active predicate (country, indicator,          *)
(* yearFrom, yearTo, layer other than 'All') holds for it.                 *)
(***************************************************************************)
C2_ResultIsConjunction ==
    (CallReturnedResult /\ variant \in RangeVariants)
    => Elements(filteredData) =
         { d \in Elements(CallData.items) : HasValue(d) /\ RangeSpecHolds(d, argFilters) }

(***************************************************************************)
(* C4 as stated: applyFilters called with a record collection that is      *)
(* empty, null, undefined or not an array ends, for any filter             *)
(* specification, in the NoData outcome: both 'No data available'          *)
(* messages, no count, no table, no alert, and filteredData not assigned.  *)
(***************************************************************************)
C4_NoDataForEveryMissingArgument ==
    [][ (Invoke /\ ~NonEmptyStore(argData))
        => /\ outcome' = "nodata"
           /\ summary' = NoDataSummary
           /\ preview' = NoDataPreview
           /\ filteredData' = filteredData ]_vars

(***************************************************************************)
(* C4 as amended: the same, for the collection the call reads, which is    *)
(* the record store when the argument is undefined (the default parameter  *)
(* replaces it): NoData when that collection is empty, null or not an      *)
(* array.                                                                  *)
(***************************************************************************)
C4_NoDataOutcome ==
    [][ (Invoke /\ ~NonEmptyStore(CallData))
        => /\ outcome' = "nodata"
           /\ summary' = NoDataSummary
           /\ preview' = NoDataPreview
           /\ filteredData' = filteredData ]_vars

\* the call was made with null or a non-array and an inverted year range,
\* over the non-empty result of the load
C4_Witness ==
    /\ callPhase = "once"
    /\ argData \in {NullData, NotArray}
    /\ InvalidRange(argFilters)
    /\ outcome = "nodata"
    /\ summary = NoDataSummary
    /\ filteredData # << >>

(***************************************************************************)
(* C5: the result assigned to filteredData is a subsequence of the input   *)
(* records: nothing invented, nothing repeated more often than in the      *)
(* input, and the surviving records in their input order.                  *)
(***************************************************************************)
C5_ResultIsSubsequence ==
    CallReturnedResult => IsSubsequence(filteredData, CallData.items)

\* two different records survived
C5_Witness ==
    /\ CallReturnedResult
    /\ Len(filteredData) = 2
    /\ filteredData[1] # filteredData[2]

(***************************************************************************)
(* C6: in the range-mode versions the layer step keeps a record iff the    *)
(* specification's layer is empty, or is 'All', or equals the record's     *)
(* layer: the result is the result without a layer constraint, narrowed to *)
(* the records the layer rule keeps.                                       *)
(***************************************************************************)
C6_LayerRule ==
    (CallReturnedResult /\ variant \in RangeVariants)
    => filteredData =
         SelectSeq(Filtered(variant, CallData.items, [argFilters EXCEPT !.layer = Empty]),
                   LAMBDA d : LayerKeeps(d, argFilters))

(***************************************************************************)
(* C7: applyFilters called twice in succession with the same records and   *)
(* the same filter specification ends both times in the same outcome with  *)
(* the same filteredData, count and preview.                               *)
(***************************************************************************)
C7_SecondCallSame ==
    [][ (Invoke /\ callPhase = "once") => (ViewUnchanged /\ outcome' = outcome) ]_vars

\* the second call has returned a non-empty result
C7_Witness ==
    /\ callPhase = "twice"
    /\ outcome = "result"
    /\ filteredData # << >>

(***************************************************************************)
(* What the filter specification of each version asks of a record.         *)
(***************************************************************************)
\* every active predicate of an exact-mode specification holds for d
ExactSpecHolds(d, f) ==
    /\ f.country # Empty => d.country = f.country
    /\ f.indicator # Empty => d.indicator = f.indicator
    /\ f.year # Empty => d.year = parseInt(f.year)

\* d has a value and satisfies the specification of version v
Matches(v, d, f) ==
    /\ HasValue(d)
    /\ IF v \in RangeVariants THEN RangeSpecHolds(d, f) ELSE ExactSpecHolds(d, f)

(***************************************************************************)
(* C12: an applyFilters run with a valid specification that no record of   *)
(* the non-empty record store matches is a successful evaluation:          *)
(* filteredData becomes the empty sequence, the summary reads '0 points    *)
(* after filter' and the preview shows 'No data matches the current        *)
(* filters', neither the NoData messages nor the alert.                    *)
(***************************************************************************)
C12_ZeroMatchIsResult ==
    [][ ( /\ InvokesApplyFilters
          /\ NonEmptyStore(allIndicatorsData')
          /\ ~InvalidRange(getFilters(variant, selects'))
          /\ \A d \in Elements(allIndicatorsData'.items) :
                ~Matches(variant, d, getFilters(variant, selects')) )
        => /\ filteredData' = << >>
           /\ summary' = CountSummary(0)
           /\ preview' = NoMatchPreview
           /\ outcome' = "result"
           /\ summary' # NoDataSummary
           /\ preview' \notin {NoDataPreview, RunScriptPreview} ]_vars

\* a selection the user made matches no record, though the store holds a
\* record with a value
C12_Witness ==
    /\ phase = "loaded"
    /\ outcome = "result"
    /\ PageFilters.country # Empty
    /\ \E d \in Elements(allIndicatorsData.items) : HasValue(d)
    /\ filteredData = << >>
    /\ summary = CountSummary(0)
    /\ preview = NoMatchPreview

(***************************************************************************)
(* The years of a record sequence as the specification orders them.        *)
(***************************************************************************)
\* the numbers of S in numerically ascending order
RECURSIVE Ascending(_)
Ascending(S) ==
    IF S = {} THEN << >>
    ELSE LET least == CHOOSE x \in S : \A y \in S : x <= y
         IN  <<least>> \o Ascending(S \ {least})

\* the distinct non-falsy years of the records, ascending
ObservedYears(items) == Ascending({ y \in Elements(Years(items)) : y # 0 })

\* the options of a select after its placeholder
OfferedOptions(sel) == Tail(sel.options)

(***************************************************************************)
(* C13: the load leaves, in every year select of the page, exactly the     *)
(* distinct non-falsy years of the record store as options, in numerically *)
(* ascending order; in the range-mode versions it sets yearFrom to the     *)
(* least and yearTo to the greatest year observed in the records.          *)
(***************************************************************************)
C13_YearOptionsFromData ==
    [][ (Load /\ phase' = "loaded")
        => LET observed == ObservedYears(allIndicatorsData'.items)
           IN  /\ \A id \in PageSelects(variant) \cap YearSelectIds :
                     OfferedOptions(selects'[id]) = YearValues(observed)
               /\ (variant \in RangeVariants /\ observed # << >>)
                     => /\ selects'["yearFromFilter"].value = Str(observed[1])
                        /\ selects'["yearToFilter"].value =
                              Str(observed[Len(observed)]) ]_vars

(***************************************************************************)
(* C14: once the page is loaded, the indicator options are a sorted        *)
(* sequence of distinct strings: the indicators of the metadata manifest   *)
(* when it is present and non-empty, and otherwise the indicator values of *)
(* the records; nothing else is offered and nothing is offered twice.      *)
(***************************************************************************)
\* each element is less than its successor: sorted, and no value twice
StrictlyAscending(s) == \A i \in 1..(Len(s) - 1) : StrLess(s[i], s[i + 1])

\* where the indicator options come from
IndicatorSource ==
    IF metadata.kind = "object" /\ Len(metadata.indicators) > 0
    THEN Elements(metadata.indicators)
    ELSE Elements(Indicators(allIndicatorsData.items))

C14_IndicatorOptions ==
    phase = "loaded"
    => /\ StrictlyAscending(OfferedOptions(selects["indicatorFilter"]))
       /\ Elements(OfferedOptions(selects["indicatorFilter"])) = IndicatorSource

(***************************************************************************)
(* C15: for a result of N rows the preview displays the first              *)
(* min(N, 255) rows of the result, in result order, and carries the        *)
(* truncation notice if and only if N > 255.                               *)
(***************************************************************************)
C15_PreviewCap ==
    outcome = "result"
    => /\ preview.rows = TableRows(variant, Slice(filteredData, maxPreviewRows))
       /\ preview.truncated = (Len(filteredData) > maxPreviewRows)

(***************************************************************************)
(* C16: in every reachable state in which the summary shows a count        *)
(* 'N points after filter', N is the length of the current filteredData    *)
(* and the preview is the rendering of that same filteredData: its table   *)
(* rows are a prefix of the current result, or it is the no-match message  *)
(* when the result is empty.                                               *)
(***************************************************************************)
IsPrefix(a, b) == Len(a) <= Len(b) /\ a = SubSeq(b, 1, Len(a))

C16_CountAndTableAgree ==
    summary.kind = "count"
    => /\ summary.n = Len(filteredData)
       /\ IF filteredData = << >> THEN preview = NoMatchPreview
          ELSE /\ preview.kind = "table"
               /\ preview.rows # << >>
               /\ IsPrefix(preview.rows, TableRows(variant, filteredData))

\* a second evaluation narrowed the result of the load: the count and the
\* table both show the one record left
C16_Witness ==
    /\ phase = "loaded"
    /\ PageFilters # NoFilters
    /\ Len(Filtered(variant, allIndicatorsData.items, NoFilters)) = 2
    /\ summary = CountSummary(1)
    /\ preview.kind = "table"
    /\ Len(preview.rows) = 1

(***************************************************************************)
(* C17: for every record sequence, every country and indicator selection   *)
(* and every year y, part_000's evaluation with yearFrom = yearTo = y and  *)
(* no layer constraint returns the sequence part_001's evaluation returns  *)
(* with year = y.                                                          *)
(***************************************************************************)
\* the exact-mode specification with the year of a one-year range
ExactOf(f) ==
    [country |-> f.country, indicator |-> f.indicator, yearFrom |-> Empty,
     yearTo |-> Empty, year |-> f.yearFrom, layer |-> Empty]

C17_OneYearRangeIsExact ==
    ( /\ CallReturnedResult
      /\ variant = "p000"
      /\ argFilters.yearFrom # Empty
      /\ argFilters.yearTo = argFilters.yearFrom
      /\ argFilters.layer \in {Empty, All} )
    => /\ filteredData = Filtered("p001", CallData.items, ExactOf(argFilters))
       /\ applyFilters("p001", CallData, ExactOf(argFilters), FreshView).outcome
            = "result"

\* part_000 was called with the range 2015..2015 over records of 2015 and
\* of another year, and kept the record of 2015
C17_Witness ==
    /\ variant = "p000"
    /\ callPhase = "once"
    /\ outcome = "result"
    /\ argFilters.yearFrom = Str(2015)
    /\ argFilters.yearTo = Str(2015)
    /\ argFilters.layer = Empty
    /\ \E d \in Elements(CallData.items) : HasValue(d) /\ d.year # 2015
    /\ Len(filteredData) = 1
    /\ filteredData[1].year = 2015

(***************************************************************************)
(* The defaults of a loaded page.                                          *)
(***************************************************************************)
\* the filter specification populateFilters leaves on the page at load
DefaultSpec ==
    getFilters(variant, populateFilters(variant, allIndicatorsData.items, metadata,
                                        InitialSelects))

\* the views the page may show before the load completes: as shipped, or
\* the NoData messages of an event handled while the load was pending
ViewsBeforeLoad == {FreshView, noDataReturn(FreshView)}

\* w and the next state show the same result
ShowsNext(w) ==
    filteredData' = w.filteredData /\ summary' = w.summary /\ preview' = w.preview

(***************************************************************************)
(* C18: a Clear click on a loaded page with a non-empty record store, from *)
(* any filter state, leaves the filter specification populateFilters set   *)
(* at load (no country, indicator or layer; the full year range, or no     *)
(* year) and the filteredData, summary and preview that were shown right   *)
(* after the load.                                                         *)
(***************************************************************************)
C18_ClearRestoresLoadedView ==
    [][ (ClearClick /\ phase = "loaded" /\ NonEmptyStore(allIndicatorsData))
        => /\ getFilters(variant, selects') = DefaultSpec
           /\ \E before \in ViewsBeforeLoad :
                 ShowsNext(applyFilters(variant, allIndicatorsData, DefaultSpec,
                                        before)) ]_vars

(***************************************************************************)
(* C19: an apply, change or clear event handled while the load is pending  *)
(* sees the empty record store and ends in the NoData outcome, leaving     *)
(* filteredData and the load as they are; and when the load completes, the *)
(* page shows the result of applying the filters then on the page to the   *)
(* loaded record store, whatever events were handled before.               *)
(***************************************************************************)
LoadPending == phase \in {"fetching", "parsing"}

\* an event of the user whose handler runs applyFilters()
FilterEvent == ApplyClick \/ ClearClick \/ (variant = "p001" /\ ChangeSelect)

C19_EventsDuringLoad ==
    [][ /\ (LoadPending /\ FilterEvent)
            => /\ allIndicatorsData = Array(<< >>)
               /\ outcome' = "nodata"
               /\ summary' = NoDataSummary
               /\ preview' = NoDataPreview
               /\ filteredData' = filteredData
               /\ phase' = phase
               /\ allIndicatorsData' = allIndicatorsData
        /\ (Load /\ phase' = "loaded")
            => ShowsNext(applyFilters(variant, allIndicatorsData',
                                      getFilters(variant, selects'), FreshView)) ]_vars

====
